---- MODULE Spec2Model ----
(***************************************************************************)
(* A model of the CHIP-8 interpreter of src/src/main.rs: the Chip8 struct, *)
(* its instruction handlers, emulate_cycle's dispatch, Console's           *)
(* update_keys and the run loop.                                           *)
(***************************************************************************)
EXTENDS Integers, Sequences, FiniteSets, TLC

VARIABLES
    emu,      \* the Chip8 struct (main.rs:105-129), plus the flag `panic`
    now,      \* the wall clock (SystemTime), in milliseconds
    build,    \* "debug" (arithmetic overflow panics) or "release" (it wraps)
    at,       \* the run loop's position: "input" or "clock"
    shown,    \* the framebuffer last handed to Screen::draw, and how often
    before,   \* emu, but for its memory, as the last dispatch cycle found it
    trace     \* the (pc, opcode) pairs of the last two dispatch cycles

vars == <<emu, now, build, at, shown, before, trace>>

(***************************************************************************)
(* Fixed-width arithmetic.                                                 *)
(***************************************************************************)
Bit(v, i) == (v \div (2 ^ i)) % 2

RECURSIVE AndW(_, _, _)
AndW(a, b, w) ==
    IF w = 0 THEN 0
    ELSE (a % 2) * (b % 2) + 2 * AndW(a \div 2, b \div 2, w - 1)

RECURSIVE OrW(_, _, _)
OrW(a, b, w) ==
    IF w = 0 THEN 0
    ELSE (IF (a % 2) + (b % 2) > 0 THEN 1 ELSE 0) + 2 * OrW(a \div 2, b \div 2, w - 1)

RECURSIVE XorW(_, _, _)
XorW(a, b, w) ==
    IF w = 0 THEN 0
    ELSE (((a % 2) + (b % 2)) % 2) + 2 * XorW(a \div 2, b \div 2, w - 1)

\* Option<T>: None is the empty sequence, Some(t) the one-element sequence.
None == <<>>
Some(t) == <<t>>

(***************************************************************************)
(* Chip8::new, font and load.                                              *)
(***************************************************************************)
new ==
    [ memory      |-> [a \in 0..4095 |-> 0],
      V           |-> [i \in 0..15 |-> 0],
      R           |-> [i \in 0..15 |-> 0],
      I           |-> 0,
      pc          |-> 512,
      stack       |-> [i \in 0..15 |-> 0],
      sp          |-> 0,
      gfx         |-> [g \in 0..2047 |-> 0],
      hgr         |-> FALSE,
      delay_timer |-> 0,
      delay_start |-> None,
      sound_timer |-> 0,
      sound_start |-> None,
      key         |-> [i \in 0..15 |-> 0],
      last_key    |-> None,
      draw_flag   |-> FALSE,
      panic       |-> FALSE ]

\* The process aborts: nothing of the interrupted handler is observable.
Panic(m) == [m EXCEPT !.panic = TRUE]

font_data ==
    << 240, 144, 144, 144, 240,   32,  96,  32,  32, 112,
       240,  16, 240, 128, 240,  240,  16, 240,  16, 240,
       144, 144, 240,  16,  16,  240, 128, 240,  16, 240,
       240, 128, 240, 144, 240,  240,  16,  32,  64,  64,
       240, 144, 240, 144, 240,  240, 144, 240,  16, 240,
       240, 144, 240, 144, 144,  224, 144, 224, 144, 224,
       240, 128, 128, 128, 240,  240, 144, 144, 144, 240,
       240, 128, 224, 128, 240,  240, 128, 240, 128, 128,
        60, 126, 231, 195, 195, 195, 195, 231, 126,  60,
        24,  56,  88,  24,  24,  24,  24,  24,  24,  60,
        62, 127, 195,   6,  12,  24,  48,  96, 255, 255,
        60, 126, 195,   3,  14,  14,   3, 195, 126,  60,
         6,  14,  30,  54, 102, 198, 255, 255,   6,   6,
       255, 255, 192, 192, 252, 254,   3, 195, 126,  60,
        62, 124, 192, 192, 252, 254, 195, 195, 126,  60,
       255, 255,   3,   6,  12,  24,  48,  96,  96,  96,
        60, 126, 195, 195, 126, 126, 195, 195, 126,  60,
        60, 126, 195, 195, 127,  63,   3,   3,  62, 124 >>

\* memory[base + i - 1] = bytes[i]: an index past the end of memory panics.
write_byte(acc, base, bytes, i) ==
    IF base + i - 1 > 4095 THEN [acc EXCEPT !.panic = TRUE]
    ELSE [acc EXCEPT !.memory = [acc.memory EXCEPT ![base + i - 1] = bytes[i]]]

\* The writes for i = lo..hi, in that order (the range is halved, and acc is
\* looked at first, so that the evaluation stays shallow).
RECURSIVE write_bytes(_, _, _, _, _)
write_bytes(acc, base, bytes, lo, hi) ==
    IF lo > hi \/ acc.panic THEN acc
    ELSE IF lo = hi THEN write_byte(acc, base, bytes, lo)
    ELSE write_bytes(write_bytes(acc, base, bytes, lo, (lo + hi) \div 2),
                     base, bytes, (lo + hi) \div 2 + 1, hi)

font(m) ==
    LET acc == write_bytes([memory |-> m.memory, panic |-> FALSE],
                           80, font_data, 1, Len(font_data))
    IN  [m EXCEPT !.memory = acc.memory]

\* The Ok arm of load's match: memory[i + 0x200] = *b for every byte read.
copy_file(m, buffer) ==
    LET acc == write_bytes([memory |-> m.memory, panic |-> FALSE],
                           512, buffer, 1, Len(buffer))
    IN  IF acc.panic THEN Panic(m) ELSE [m EXCEPT !.memory = acc.memory]

\* load, with a file that could be read.
load(m, buffer) == copy_file(font(m), buffer)

\* Chip8::new followed by the self.font() of load: the same for every file.
with_font == font(new)

\* pc += k (u16).
advance(m, k) ==
    IF m.pc + k > 65535
    THEN IF build = "debug" THEN Panic(m) ELSE [m EXCEPT !.pc = (m.pc + k) % 65536]
    ELSE [m EXCEPT !.pc = m.pc + k]

(***************************************************************************)
(* The instruction handlers.  m is the Chip8 before the instruction; the   *)
(* result is the Chip8 after it.                                           *)
(***************************************************************************)
\* draw_clear filling with 0xFF.
draw_clear_to_ff(m) ==
    advance([m EXCEPT !.gfx = [g \in 0..2047 |-> 255]], 2)

draw_clear(m) ==
    advance([m EXCEPT !.gfx = [g \in 0..2047 |-> 0]], 2)

scroll_left(m) == advance(m, 2)

scroll_right(m) == advance(m, 2)

\* One assignment of scroll_down's inner loop, all of it in u8 arithmetic:
\* gfx[(row*64+col) as usize] = gfx[((row-start)*64+col) as usize].
scroll_copy(acc, row, col, start) ==
    LET dst == row * 64 + col
        src == (row - start) * 64 + col
    IN  IF acc.panic THEN acc
        ELSE IF (dst > 255 \/ src > 255) /\ build = "debug"
        THEN [acc EXCEPT !.panic = TRUE]
        ELSE [acc EXCEPT !.gfx = [@ EXCEPT ![dst % 256] = acc.gfx[src % 256]]]

\* The loops of scroll_down: row from 31 down to start, col from 0 to 63.
\* Step k (k = lo..hi, in that order) is row 31 - k \div 64, column k % 64.
RECURSIVE scroll_rows(_, _, _, _)
scroll_rows(acc, lo, hi, start) ==
    IF lo > hi \/ acc.panic THEN acc
    ELSE IF lo = hi THEN scroll_copy(acc, 31 - (lo \div 64), lo % 64, start)
    ELSE scroll_rows(scroll_rows(acc, lo, (lo + hi) \div 2, start),
                     (lo + hi) \div 2 + 1, hi, start)

scroll_down(m, x) ==
    LET start == m.V[x]
        acc   == scroll_rows([gfx |-> m.gfx, panic |-> FALSE],
                             0, (32 - start) * 64 - 1, start)
    IN  IF acc.panic THEN Panic(m)
        ELSE advance([m EXCEPT !.gfx = acc.gfx], 2)

hgr(m, enable) == advance([m EXCEPT !.hgr = enable], 2)

\* A u16 sum: -1 where the debug build panics on overflow, wrapped otherwise.
add16(a, b) ==
    IF a < 0 THEN -1
    ELSE IF a + b > 65535 THEN IF build = "debug" THEN -1 ELSE (a + b) % 65536
    ELSE a + b

\* memory[a as usize] for the sums above.  -1: the read panics.
read(m, a) == IF a < 0 \/ a > 4095 THEN -1 ELSE m.memory[a]

\* The sprite row a draw reads: memory[I + row] (width 8), or
\* memory[I + 2*row] and memory[I + 1 + 2*row] merged (width 15).
\* -1: a read panics.
sprite_row(m, row, width) ==
    IF width = 8 THEN read(m, add16(m.I, row))
    ELSE LET pixel_left  == read(m, add16(m.I, 2 * row))
             pixel_right == read(m, add16(add16(m.I, 1), 2 * row))
         IN  IF pixel_left < 0 \/ pixel_right < 0 THEN -1
             ELSE pixel_left * 256 + pixel_right

\* The body of "if bit != 0" with gfx[g] |= 1 in place of gfx[g] ^= 1.
draw_pixel_or(acc, g) ==
    IF g > 2047 THEN [acc EXCEPT !.panic = TRUE]
    ELSE [ gfx   |-> [acc.gfx EXCEPT ![g] = OrW(acc.gfx[g], 1, 8)],
           vf    |-> IF acc.gfx[g] = 1 THEN 1 ELSE acc.vf,
           panic |-> FALSE ]

\* The body of "if bit != 0": the collision test, then gfx[g] ^= 1.
draw_pixel(acc, g) ==
    IF g > 2047 THEN [acc EXCEPT !.panic = TRUE]
    ELSE [ gfx   |-> [acc.gfx EXCEPT ![g] = XorW(acc.gfx[g], 1, 8)],
           vf    |-> IF acc.gfx[g] = 1 THEN 1 ELSE acc.vf,
           panic |-> FALSE ]

\* One step of the two nested loops of a draw: row k \div width, column
\* k % width; the mask is 0x80 >> col (width 8) or 0x8000 >> col (width 15).
draw_bit(m, x, y, width, k, acc) ==
    LET row   == k \div width
        col   == k % width
        pixel == sprite_row(m, row, width)
        msb   == IF width = 8 THEN 7 ELSE 15
    IN  IF acc.panic THEN acc
        ELSE IF pixel < 0 THEN [acc EXCEPT !.panic = TRUE]
        ELSE IF Bit(pixel, msb - col) = 1
        THEN draw_pixel(acc, x + col + (y + row) * 64)
        ELSE acc

\* Steps lo..hi of the loops, in that order.
RECURSIVE draw_loop(_, _, _, _, _, _, _)
draw_loop(m, x, y, width, lo, hi, acc) ==
    IF lo > hi \/ acc.panic THEN acc
    ELSE IF lo = hi THEN draw_bit(m, x, y, width, lo, acc)
    ELSE draw_loop(m, x, y, width, (lo + hi) \div 2 + 1, hi,
                   draw_loop(m, x, y, width, lo, (lo + hi) \div 2, acc))

draw_x_y_high(m, x, y, n) ==
    LET acc == draw_loop(m, m.V[x], m.V[y], 15, 0, 15 * 15 - 1,
                         [gfx |-> m.gfx, vf |-> 0, panic |-> FALSE])
    IN  IF acc.panic THEN Panic(m)
        ELSE advance([m EXCEPT !.V = [@ EXCEPT ![15] = acc.vf],
                               !.gfx = acc.gfx,
                               !.draw_flag = TRUE], 2)

draw_x_y_low(m, x, y, n) ==
    IF m.hgr /\ n = 0 THEN draw_x_y_high(m, x, y, n)
    ELSE LET acc == draw_loop(m, m.V[x], m.V[y], 8, 0, n * 8 - 1,
                              [gfx |-> m.gfx, vf |-> 0, panic |-> FALSE])
         IN  IF acc.panic THEN Panic(m)
             ELSE advance([m EXCEPT !.V = [@ EXCEPT ![15] = acc.vf],
                                    !.gfx = acc.gfx,
                                    !.draw_flag = TRUE], 2)

\* ((elapsed.as_millis() * 60) / 1000) as u8: the cast keeps the low 8 bits.
as_hertz(elapsed) == ((elapsed * 60) \div 1000) % 256

get_delay(m, x) ==
    advance(
        IF m.delay_start # None /\ now >= m.delay_start[1]
        THEN LET hertz == as_hertz(now - m.delay_start[1])
             IN  IF hertz >= m.delay_timer
                 THEN [m EXCEPT !.V = [@ EXCEPT ![x] = 0]]
                 ELSE [m EXCEPT !.V = [@ EXCEPT ![x] = m.delay_timer - hertz]]
        ELSE m, 2)

if_vx_eq_nn(m, x, nn) ==
    IF m.V[x] = nn THEN advance(m, 4) ELSE advance(m, 2)

if_not_eq(m, x, nn) ==
    IF m.V[x] # nn THEN advance(m, 4) ELSE advance(m, 2)

if_eq(m, x, y) ==
    IF m.V[x] = m.V[y] THEN advance(m, 4) ELSE advance(m, 2)

start_delay(m, x) ==
    advance([m EXCEPT !.delay_start = Some(now), !.delay_timer = m.V[x]], 2)

start_sound_delay(m, x) ==
    advance([m EXCEPT !.sound_start = Some(now), !.sound_timer = m.V[x]], 2)

\* set_i without its pc += 2.
set_i_stalls(m, nnn) == [m EXCEPT !.I = nnn]

set_i(m, nnn) == advance([m EXCEPT !.I = nnn], 2)

set_v(m, x, nn) == advance([m EXCEPT !.V = [@ EXCEPT ![x] = nn]], 2)

\* add_v as it would be if it kept the carry, as 8xy4 does.
add_v_keeps_carry(m, x, nn) ==
    LET sum == m.V[x] + nn
        V1  == [m.V EXCEPT ![x] = sum % 256]
        V2  == [V1 EXCEPT ![15] = IF sum > 255 THEN 1 ELSE 0]
    IN  advance([m EXCEPT !.V = V2], 2)

\* V[x] = v, then V[0xF] = 0.
add_v(m, x, nn) ==
    LET v  == (m.V[x] + nn) % 256
        V1 == [m.V EXCEPT ![x] = v]
        V2 == [V1 EXCEPT ![15] = 0]
    IN  advance([m EXCEPT !.V = V2], 2)

set_v_v(m, x, y) == advance([m EXCEPT !.V = [@ EXCEPT ![x] = m.V[y]]], 2)

vx_or_vy(m, x, y) ==
    advance([m EXCEPT !.V = [@ EXCEPT ![x] = OrW(m.V[x], m.V[y], 8)]], 2)

vx_and_vy(m, x, y) ==
    advance([m EXCEPT !.V = [@ EXCEPT ![x] = AndW(m.V[x], m.V[y], 8)]], 2)

vx_xor_vy(m, x, y) ==
    advance([m EXCEPT !.V = [@ EXCEPT ![x] = XorW(m.V[x], m.V[y], 8)]], 2)

\* vx_add_vy_carry with the two writes in the other order: the flag, then V[x].
vx_add_vy_flag_first(m, x, y) ==
    LET sum == m.V[x] + m.V[y]
        V1  == [m.V EXCEPT ![15] = IF sum > 255 THEN 1 ELSE 0]
        V2  == [V1 EXCEPT ![x] = sum % 256]
    IN  advance([m EXCEPT !.V = V2], 2)

\* overflowing_add: (wrapped sum, carry); V[x] = v, then V[0xF] = carry.
vx_add_vy_carry(m, x, y) ==
    LET sum == m.V[x] + m.V[y]
        V1  == [m.V EXCEPT ![x] = sum % 256]
        V2  == [V1 EXCEPT ![15] = IF sum > 255 THEN 1 ELSE 0]
    IN  advance([m EXCEPT !.V = V2], 2)

\* vx_sub_vy_borrow reporting a borrow also when the operands are equal.
vx_sub_vy_borrow_on_equal(m, x, y) ==
    LET diff == m.V[x] - m.V[y]
        V1   == [m.V EXCEPT ![x] = diff % 256]
        V2   == [V1 EXCEPT ![15] = IF diff <= 0 THEN 0 ELSE 1]
    IN  advance([m EXCEPT !.V = V2], 2)

\* overflowing_sub: (wrapped difference, borrow); V[0xF] = 0 on a borrow.
vx_sub_vy_borrow(m, x, y) ==
    LET diff == m.V[x] - m.V[y]
        V1   == [m.V EXCEPT ![x] = diff % 256]
        V2   == [V1 EXCEPT ![15] = IF diff < 0 THEN 0 ELSE 1]
    IN  advance([m EXCEPT !.V = V2], 2)

vy_sub_vx_borrow(m, x, y) ==
    LET diff == m.V[y] - m.V[x]
        V1   == [m.V EXCEPT ![x] = diff % 256]
        V2   == [V1 EXCEPT ![15] = IF diff < 0 THEN 0 ELSE 1]
    IN  advance([m EXCEPT !.V = V2], 2)

\* V[0xF] = V[y] & 0x1, then V[x] = V[y] >> 1 (V[y] read again).
vx_as_rshift_vy(m, x, y) ==
    LET V1 == [m.V EXCEPT ![15] = AndW(m.V[y], 1, 8)]
        V2 == [V1 EXCEPT ![x] = V1[y] \div 2]
    IN  advance([m EXCEPT !.V = V2], 2)

\* V[0xF] = (V[y] & 0xF0 != 0), then V[x] = V[y] << 1 (V[y] read again).
vx_as_lshift_vy(m, x, y) ==
    LET V1 == [m.V EXCEPT ![15] = IF AndW(m.V[y], 240, 8) # 0 THEN 1 ELSE 0]
        V2 == [V1 EXCEPT ![x] = (V1[y] * 2) % 256]
    IN  advance([m EXCEPT !.V = V2], 2)

\* 9xy0 skipping on equality, as its name reads.
if_vx_eq_vy_on_equal(m, x, y) ==
    IF m.V[x] = m.V[y] THEN advance(m, 4) ELSE advance(m, 2)

\* 9xy0: pc += 4 when V[x] != V[y].
if_vx_eq_vy(m, x, y) ==
    IF m.V[x] # m.V[y] THEN advance(m, 4) ELSE advance(m, 2)

i_add_vx(m, x) ==
    IF m.I + m.V[x] > 65535
    THEN IF build = "debug" THEN Panic(m)
         ELSE advance([m EXCEPT !.I = (m.I + m.V[x]) % 65536], 2)
    ELSE advance([m EXCEPT !.I = m.I + m.V[x]], 2)

jmp(m, nnn) == [m EXCEPT !.pc = nnn]

jmp_v0(m, nnn) == [m EXCEPT !.pc = m.V[0] + nnn]

\* jsr pushing the address of the next instruction instead of its own.
jsr_pushes_next(m, nnn) ==
    IF m.sp > 15 THEN Panic(m)
    ELSE [m EXCEPT !.stack = [@ EXCEPT ![m.sp] = m.pc + 2],
                   !.pc = nnn,
                   !.sp = m.sp + 1]

jsr(m, nnn) ==
    IF m.sp > 15 THEN Panic(m)
    ELSE [m EXCEPT !.stack = [@ EXCEPT ![m.sp] = m.pc],
                   !.pc = nnn,
                   !.sp = m.sp + 1]

\* sp - 1 underflows at sp = 0 (a panic in debug; in release the index
\* 0xFFFF is out of bounds); the index is out of bounds for sp > 16.
ret(m) ==
    IF m.sp = 0 \/ m.sp - 1 > 15 THEN Panic(m)
    ELSE advance([m EXCEPT !.pc = m.stack[m.sp - 1], !.sp = m.sp - 1], 2)

exit(m) == [m EXCEPT !.pc = 65535]

\* native_call with a pc += 2.
native_call_advances(m, nnn) == advance(m, 2)

native_call(m, nnn) == m

vx_rnd(m, x, nn, random) ==
    advance([m EXCEPT !.V = [@ EXCEPT ![x] = AndW(random, nn, 8)]], 2)

\* 5 * V[x] and 10 * V[x] are u8 products.
i_as_sprite_vx(m, x) ==
    IF 5 * m.V[x] > 255 /\ build = "debug" THEN Panic(m)
    ELSE advance([m EXCEPT !.I = 80 + ((5 * m.V[x]) % 256)], 2)

i_as_hgr_sprite_vx(m, x) ==
    IF 10 * m.V[x] > 255 /\ build = "debug" THEN Panic(m)
    ELSE advance([m EXCEPT !.I = 160 + ((10 * m.V[x]) % 256)], 2)

vx_as_bcd(m, x) ==
    IF m.I + 2 > 4095 THEN Panic(m)
    ELSE advance([m EXCEPT !.memory = [@ EXCEPT ![m.I]     = m.V[x] \div 100,
                                                ![m.I + 1] = (m.V[x] \div 10) % 10,
                                                ![m.I + 2] = m.V[x] % 10]], 2)

\* I += count + 1 (u16), then pc += 2.
bump_i(m, count) ==
    IF m.I + count + 1 > 65535
    THEN IF build = "debug" THEN Panic(m)
         ELSE advance([m EXCEPT !.I = (m.I + count + 1) % 65536], 2)
    ELSE advance([m EXCEPT !.I = m.I + count + 1], 2)

\* store_v0_vx without its I += count + 1.
store_v0_vx_keeps_i(m, x) ==
    IF m.I + x > 4095 THEN Panic(m)
    ELSE advance([m EXCEPT !.memory =
                    [a \in 0..4095 |->
                        IF a >= m.I /\ a <= m.I + x THEN m.V[a - m.I] ELSE @[a]]], 2)

store_v0_vx(m, x) ==
    IF m.I + x > 4095 THEN Panic(m)
    ELSE bump_i([m EXCEPT !.memory =
                    [a \in 0..4095 |->
                        IF a >= m.I /\ a <= m.I + x THEN m.V[a - m.I] ELSE @[a]]], x)

\* V[c] = memory[I + c] for c = 0..x.
read_v0_vx(m, x) ==
    IF m.I + x > 4095 THEN Panic(m)
    ELSE bump_i([m EXCEPT !.V =
                    [c \in 0..15 |-> IF c <= x THEN m.memory[m.I + c] ELSE @[c]]], x)

\* R[I + c] = V[c] for c = 0..x: R has 16 entries.
store_rpl_v0_vx(m, x) ==
    IF m.I + x > 15 THEN Panic(m)
    ELSE bump_i([m EXCEPT !.R =
                    [a \in 0..15 |->
                        IF a >= m.I /\ a <= m.I + x THEN m.V[a - m.I] ELSE @[a]]], x)

read_rpl_v0_vx(m, x) ==
    IF m.I + x > 15 THEN Panic(m)
    ELSE bump_i([m EXCEPT !.V =
                    [c \in 0..15 |-> IF c <= x THEN m.R[m.I + c] ELSE @[c]]], x)

\* key[V[x]]: key has 16 entries.
skip_if_key_vx(m, x) ==
    IF m.V[x] > 15 THEN Panic(m)
    ELSE IF m.key[m.V[x]] # 0 THEN advance(m, 4) ELSE advance(m, 2)

skip_if_not_key_vx(m, x) ==
    IF m.V[x] > 15 THEN Panic(m)
    ELSE IF m.key[m.V[x]] = 0 THEN advance(m, 4) ELSE advance(m, 2)

\* wait_for_next_key that goes on without a key.
wait_for_next_key_no_wait(m, x) ==
    IF m.last_key # None
    THEN advance([m EXCEPT !.V = [@ EXCEPT ![x] = m.last_key[1]]], 2)
    ELSE advance(m, 2)

wait_for_next_key(m, x) ==
    IF m.last_key # None
    THEN advance([m EXCEPT !.V = [@ EXCEPT ![x] = m.last_key[1]]], 2)
    ELSE m

(***************************************************************************)
(* emulate_cycle: fetch, decode, dispatch.                                 *)
(***************************************************************************)
\* The two bytes at pc as one word; only read where pc + 1 is in bounds.
opcode(m) == m.memory[m.pc] * 256 + m.memory[m.pc + 1]

fetchable(m) == m.pc + 1 <= 4095

nib0(w) == w \div 4096
nib1(w) == (w \div 256) % 16
nib2(w) == (w \div 16) % 16
nib3(w) == w % 16

\* The match of emulate_cycle, arm by arm, in its order.
dispatch(m, w, random) ==
    LET n0  == nib0(w)
        n1  == nib1(w)
        n2  == nib2(w)
        n3  == nib3(w)
        nn  == w % 256
        nnn == w % 4096
    IN  IF n0 = 0 /\ n1 = 0 /\ n2 = 12 THEN scroll_down(m, n3)
        ELSE IF w = 251 THEN scroll_right(m)
        ELSE IF w = 252 THEN scroll_left(m)
        ELSE IF w = 253 THEN exit(m)
        ELSE IF w = 254 THEN hgr(m, FALSE)
        ELSE IF w = 255 THEN hgr(m, TRUE)
        ELSE IF w = 224 THEN draw_clear(m)
        ELSE IF w = 238 THEN ret(m)
        ELSE IF n0 = 0 THEN native_call(m, nnn)
        ELSE IF n0 = 1 THEN jmp(m, nnn)
        ELSE IF n0 = 2 THEN jsr(m, nnn)
        ELSE IF n0 = 3 THEN if_vx_eq_nn(m, n1, nn)
        ELSE IF n0 = 4 THEN if_not_eq(m, n1, nn)
        ELSE IF n0 = 5 /\ n3 = 0 THEN if_eq(m, n1, n2)
        ELSE IF n0 = 6 THEN set_v(m, n1, nn)
        ELSE IF n0 = 7 THEN add_v(m, n1, nn)
        ELSE IF n0 = 8 /\ n3 = 0 THEN set_v_v(m, n1, n2)
        ELSE IF n0 = 8 /\ n3 = 1 THEN vx_or_vy(m, n1, n2)
        ELSE IF n0 = 8 /\ n3 = 2 THEN vx_and_vy(m, n1, n2)
        ELSE IF n0 = 8 /\ n3 = 3 THEN vx_xor_vy(m, n1, n2)
        ELSE IF n0 = 8 /\ n3 = 4 THEN vx_add_vy_carry(m, n1, n2)
        ELSE IF n0 = 8 /\ n3 = 5 THEN vx_sub_vy_borrow(m, n1, n2)
        ELSE IF n0 = 8 /\ n3 = 6 THEN vx_as_rshift_vy(m, n1, n2)
        ELSE IF n0 = 8 /\ n3 = 7 THEN vy_sub_vx_borrow(m, n1, n2)
        ELSE IF n0 = 8 /\ n3 = 14 THEN vx_as_lshift_vy(m, n1, n2)
        ELSE IF n0 = 9 /\ n3 = 0 THEN if_vx_eq_vy(m, n1, n2)
        ELSE IF n0 = 10 THEN set_i(m, nnn)
        ELSE IF n0 = 11 THEN jmp_v0(m, nnn)
        ELSE IF n0 = 12 THEN vx_rnd(m, n1, nn, random)
        ELSE IF n0 = 13 THEN draw_x_y_low(m, n1, n2, n3)
        ELSE IF n0 = 14 /\ n2 = 9 /\ n3 = 14 THEN skip_if_key_vx(m, n1)
        ELSE IF n0 = 14 /\ n2 = 10 /\ n3 = 1 THEN skip_if_not_key_vx(m, n1)
        ELSE IF n0 = 15 /\ n2 = 0 /\ n3 = 7 THEN get_delay(m, n1)
        ELSE IF n0 = 15 /\ n2 = 0 /\ n3 = 10 THEN wait_for_next_key(m, n1)
        ELSE IF n0 = 15 /\ n2 = 1 /\ n3 = 5 THEN start_delay(m, n1)
        ELSE IF n0 = 15 /\ n2 = 1 /\ n3 = 8 THEN start_sound_delay(m, n1)
        ELSE IF n0 = 15 /\ n2 = 1 /\ n3 = 14 THEN i_add_vx(m, n1)
        ELSE IF n0 = 15 /\ n2 = 2 /\ n3 = 9 THEN i_as_sprite_vx(m, n1)
        ELSE IF n0 = 15 /\ n2 = 3 /\ n3 = 0 THEN i_as_hgr_sprite_vx(m, n1)
        ELSE IF n0 = 15 /\ n2 = 3 /\ n3 = 3 THEN vx_as_bcd(m, n1)
        ELSE IF n0 = 15 /\ n2 = 5 /\ n3 = 5 THEN store_v0_vx(m, n1)
        ELSE IF n0 = 15 /\ n2 = 6 /\ n3 = 5 THEN read_v0_vx(m, n1)
        ELSE IF n0 = 15 /\ n2 = 7 /\ n3 = 5 THEN store_rpl_v0_vx(m, n1)
        ELSE IF n0 = 15 /\ n2 = 8 /\ n3 = 5 THEN read_rpl_v0_vx(m, n1)
        ELSE m

\* memory[pc] and memory[pc + 1] are indexed before anything else.
emulate_cycle(m, random) ==
    IF ~fetchable(m) THEN Panic(m) ELSE dispatch(m, opcode(m), random)

(***************************************************************************)
(* Console::update_keys.                                                   *)
(***************************************************************************)
keymap ==
    << "X", "Key1", "Key2", "Key3", "Q", "W", "E", "A",
       "S", "D", "Z", "C", "Key4", "R", "F", "V" >>

\* keymap.iter().position(|k| k == key)
position(k) ==
    IF \E i \in 1..16 : keymap[i] = k
    THEN Some((CHOOSE i \in 1..16 : keymap[i] = k) - 1)
    ELSE None

\* The loop over the pressed keys, in the order get_keys reports them.
RECURSIVE scan_keys(_, _, _)
scan_keys(keys, emu_keys, last) ==
    IF keys = <<>> THEN [key |-> emu_keys, last_key |-> last]
    ELSE LET pos == position(Head(keys))
         IN  IF pos # None
             THEN scan_keys(Tail(keys), [emu_keys EXCEPT ![pos[1]] = 255],
                            IF last = None THEN Some(pos[1]) ELSE last)
             ELSE scan_keys(Tail(keys), emu_keys, last)

\* update_keys without its *last = None.
update_keys_keeps_latch(m, keys) ==
    LET r == scan_keys(keys, [i \in 0..15 |-> 0], m.last_key)
    IN  [m EXCEPT !.key = r.key, !.last_key = r.last_key]

update_keys(m, keys) ==
    LET r == scan_keys(keys, [i \in 0..15 |-> 0], None)
    IN  [m EXCEPT !.key = r.key, !.last_key = r.last_key]

(***************************************************************************)
(* The run loop.                                                           *)
(***************************************************************************)
\* Cxkk is the one instruction that draws a random byte.
randoms(m, sample) ==
    IF fetchable(m) /\ nib0(opcode(m)) = 12 THEN sample ELSE {0}

\* What is kept of the machine a dispatch cycle starts from.
snapshot(m) == [m EXCEPT !.memory = <<>>]

\* The last two dispatch cycles, newest last.
record(tr, m) ==
    LET e == [pc |-> m.pc, op |-> IF fetchable(m) THEN opcode(m) ELSE -1]
    IN  IF Len(tr) < 2 THEN Append(tr, e) ELSE <<tr[2], e>>

\* self.input.update_keys(&mut self.key, &mut self.last_key)
UpdateKeys(inputs) ==
    /\ at = "input"
    /\ ~emu.panic
    /\ \E keys \in inputs : emu' = update_keys(emu, keys)
    /\ at' = "clock"
    /\ UNCHANGED <<now, build, shown, before, trace>>

\* What the loop does with clock.elapsed(): nothing before 1000 ms (or with
\* the clock set back); else run_tick, and the redraw when draw_flag is set.
\* The gate with the threshold compared in milliseconds: open from 550 ms.
gate_open_at_550 == now >= 550

gate_open == now >= 0 /\ (now * 550) \div 1000 >= 550

Elapsed(sample) ==
    /\ at = "clock"
    /\ ~emu.panic
    /\ at' = "input"
    /\ IF gate_open
       THEN \E random \in randoms(emu, sample) :
              LET m == emulate_cycle(emu, random)
              IN  /\ before' = snapshot(emu)
                  /\ trace' = record(trace, emu)
                  /\ IF m.draw_flag /\ ~m.panic
                     THEN /\ emu' = [m EXCEPT !.draw_flag = FALSE]
                          /\ shown' = [frame |-> m.gfx, fresh |-> TRUE]
                     ELSE /\ emu' = m
                          /\ shown' = [shown EXCEPT !.fresh = FALSE]
       ELSE UNCHANGED <<emu, shown, before, trace>>
    /\ UNCHANGED <<now, build>>

\* Wall-clock time passes (dt < 0: the system clock is set back).
Tick(steps, limit) ==
    /\ ~emu.panic
    /\ \E dt \in steps : now + dt <= limit /\ now' = now + dt
    /\ UNCHANGED <<emu, build, at, shown, before, trace>>

\* The machine as run() finds it: created, fonts and program loaded.
Loaded(roms, builds) ==
    /\ \E rom \in roms : emu = copy_file(with_font, rom)
    /\ now = 0
    /\ build \in builds
    /\ at = "input"
    /\ shown = [frame |-> [g \in 0..2047 |-> 0], fresh |-> FALSE]
    /\ before = snapshot(emu)
    /\ trace = <<>>

(***************************************************************************)
(* Programs.                                                               *)
(***************************************************************************)
\* The two bytes of the instruction with nibbles a, b, c, d.
ins(a, b, c, d) == <<a * 16 + b, c * 16 + d>>

\* 6xkk
ld(x, kk) == <<96 + x, kk>>

Regs == {0, 1, 15}
Bytes == {0, 1, 16, 255}

AluOps(x, y) ==
    {<<112 + x, kk>> : kk \in {1, 255}}
    \cup {ins(8, x, y, n) : n \in {4, 5, 6, 7, 14}}

AluRoms ==
    {ld(x, a) \o ld(y, b) \o t :
        <<x, y, a, b, t>> \in
            {q \in Regs \X Regs \X Bytes \X Bytes \X UNION {AluOps(x, y) : x \in Regs, y \in Regs} :
                q[5] \in AluOps(q[1], q[2])}}

NoKeys == {<<>>}
WarmUp == {1000}
WarmUpLimit == 1000

NextAlu == UpdateKeys(NoKeys) \/ Elapsed({0}) \/ Tick(WarmUp, WarmUpLimit)

\* No instruction of these programs reaches an overflow check.
SpecAlu == Loaded(AluRoms, {"release"}) /\ [][NextAlu]_vars

\* The skip family on two registers, with and without keys held down.
SkipRegs == {0, 1}

SkipOps(x, y) ==
    {<<n0 * 16 + x, kk>> : n0 \in {3, 4}, kk \in {1, 255}}
    \cup {ins(5, x, y, 0), ins(9, x, y, 0), ins(14, x, 9, 14), ins(14, x, 10, 1)}

SkipRoms ==
    {ld(x, a) \o ld(y, b) \o t :
        <<x, y, a, b, t>> \in
            {q \in SkipRegs \X SkipRegs \X Bytes \X Bytes
                    \X UNION {SkipOps(x, y) : x \in SkipRegs, y \in SkipRegs} :
                q[5] \in SkipOps(q[1], q[2])}}

\* Nothing held; or the space bar (not mapped) and "1" (slot 1).
SkipKeys == {<<>>, <<"Space", "Key1">>}

NextSkip == UpdateKeys(SkipKeys) \/ Elapsed({0}) \/ Tick(WarmUp, WarmUpLimit)

\* No instruction of these programs reaches an overflow check.
SpecSkip == Loaded(SkipRoms, {"release"}) /\ [][NextSkip]_vars

\* The bytes of a program given as 16-bit words, high byte first.
bytes(words) ==
    [i \in 1..(2 * Len(words)) |->
        IF i % 2 = 1 THEN words[(i + 1) \div 2] \div 256 ELSE words[i \div 2] % 256]

\* 2nnn at 0x200 and 00EE at nnn (nnn >= 0x202), zeros between and after.
CallAt(nnn) ==
    [i \in 1..(nnn - 510) |->
        IF i = 1 THEN 32 + (nnn \div 256)
        ELSE IF i = 2 THEN nnn % 256
        ELSE IF i = nnn - 510 THEN 238
        ELSE 0]

\* A routine that calls itself until V0 = depth, then calls a leaf that is a
\* lone 00EE, and returns:
\*   200: 7001   202: 30kk   204: 2200   206: 220A   208: 00EE   20A: 00EE
Recurse(depth) == bytes(<<28673, 12288 + depth, 8704, 8714, 238, 238>>)

Targets == {514, 515, 768, 4094}
Depths == {1, 2, 16, 17}

CallRoms == {CallAt(nnn) : nnn \in Targets} \cup {Recurse(d) : d \in Depths}

NextCall == UpdateKeys(NoKeys) \/ Elapsed({0}) \/ Tick(WarmUp, WarmUpLimit)

SpecCall == Loaded(CallRoms, {"debug", "release"}) /\ [][NextCall]_vars

\* One word for every arm of the match (x = 0, y = 1) and words no arm takes
\* (5011, 8018, 9011, E000, F0FF).
IsaWords ==
    { 192, 193, 251, 252, 253, 254, 255, 224, 238, 291,
      4612, 8710, 12289, 16385, 20496, 20497, 24581, 28675,
      32784, 32785, 32786, 32787, 32788, 32789, 32790, 32791, 32798, 32792,
      36880, 36881, 41524, 45572, 49407, 53265, 53264,
      57502, 57505, 57344,
      61447, 61450, 61461, 61464, 61470, 61481, 61488, 61491,
      61525, 61541, 61557, 61573, 61695 }

\* Two-instruction samples: arm the timer then read it; high resolution then
\* a 16x16 draw.
IsaPairs == { <<61461, 61447>>, <<255, 53264>> }

\* The values V0 and V1 are given before the sample.
IsaOperands == { <<0, 0>>, <<1, 0>>, <<1, 1>>, <<40, 1>> }

IsaRoms ==
    { ld(0, ab[1]) \o ld(1, ab[2]) \o bytes(ws) :
        ab \in IsaOperands, ws \in {<<w>> : w \in IsaWords} \cup IsaPairs }
    \cup { bytes(<<24581, 28675>>), bytes(<<41524>>) }

IsaKeys == { <<>>, <<"Key1">> }

NextIsa == UpdateKeys(IsaKeys) \/ Elapsed({0, 255}) \/ Tick(WarmUp, WarmUpLimit)

SpecIsa == Loaded(IsaRoms, {"debug", "release"}) /\ [][NextIsa]_vars

\* Arm the delay timer with a, then read it for ever:
\*   200: 60aa   202: F015   204: F107   206: 1204
Countdown(a) == ld(0, a) \o bytes(<<61461, 61703, 4612>>)

TimerRoms == {Countdown(a) : a \in {0, 1, 10, 30, 31, 255}}

\* The clock advances by half a second (30 ticks of 60 Hz) or by the first
\* instant at which 256 ticks have passed.
TimerSteps == {500, 4267}
TimerLimit == 5300

NextTimer == UpdateKeys(NoKeys) \/ Elapsed({0}) \/ Tick(TimerSteps, TimerLimit)

SpecTimer == Loaded(TimerRoms, {"release"}) /\ [][NextTimer]_vars

\* Point I at a sprite, give Vx and Vy the coordinates, and draw three times
\* with the same word; `mode` is empty or the switch to high resolution:
\*   Annn   6xaa   6ybb   Dxyn   Dxyn   Dxyn
Draws(mode, nnn, x, y, a, b, n) ==
    bytes(mode \o <<40960 + nnn>>) \o ld(x, a) \o ld(y, b)
        \o bytes([i \in 1..3 |-> 53248 + x * 256 + y * 16 + n])

DrawModes == {<<>>, <<255>>}
\* The font glyph "0" at 0x50, and the 48 zero bytes at the start of memory.
DrawSprites == {80, 0}
DrawRegs == {<<0, 1>>, <<0, 0>>, <<15, 1>>, <<0, 15>>}
DrawX == {0, 5, 60}
DrawY == {0, 31}
DrawRows == {0, 1, 5}

DrawRoms ==
    { Draws(mode, nnn, xy[1], xy[2], a, b, n) :
        mode \in DrawModes, nnn \in DrawSprites, xy \in DrawRegs,
        a \in DrawX, b \in DrawY, n \in DrawRows }

NextDraw == UpdateKeys(NoKeys) \/ Elapsed({0}) \/ Tick(WarmUp, WarmUpLimit)

SpecDraw == Loaded(DrawRoms, {"release"}) /\ [][NextDraw]_vars

\* Fill V0..V2, store V0..Vx at nnn, clear V0..V2, load V0..Vx from nnn:
\*   60aa 61bb 62cc Annn Fx55 6000 6100 6200 Annn Fx65
Block(x, nnn, abc) ==
    ld(0, abc[1]) \o ld(1, abc[2]) \o ld(2, abc[3])
        \o bytes(<<40960 + nnn, 61525 + 256 * x>>)
        \o ld(0, 0) \o ld(1, 0) \o ld(2, 0)
        \o bytes(<<40960 + nnn, 61541 + 256 * x>>)

BlockCounts == {0, 1, 2, 15}
\* Free memory, the last 16 bytes, the last two bytes, the last byte.
BlockBases == {768, 4080, 4094, 4095}
BlockValues == {<<1, 2, 3>>, <<255, 0, 128>>}

BlockRoms ==
    { Block(x, nnn, abc) : x \in BlockCounts, nnn \in BlockBases, abc \in BlockValues }

NextBlock == UpdateKeys(NoKeys) \/ Elapsed({0}) \/ Tick(WarmUp, WarmUpLimit)

SpecBlock == Loaded(BlockRoms, {"debug", "release"}) /\ [][NextBlock]_vars

\* Draw the glyph "0" at (a, b), then clear the screen or scroll it down by
\* V2 = s:
\*   A050 60aa 61bb 62ss D015 (00E0 | 00C2)
Screen(a, b, s, w) ==
    bytes(<<41040>>) \o ld(0, a) \o ld(1, b) \o ld(2, s) \o bytes(<<53269, w>>)

ScreenX == {0, 60}
ScreenY == {0, 2, 27}
ScreenShifts == {0, 1, 4, 31, 32, 255}
ScreenWords == {224, 194}

ScreenRoms ==
    { Screen(a, b, s, w) :
        a \in ScreenX, b \in ScreenY, s \in ScreenShifts, w \in ScreenWords }

NextScreen == UpdateKeys(NoKeys) \/ Elapsed({0}) \/ Tick(WarmUp, WarmUpLimit)

SpecScreen == Loaded(ScreenRoms, {"debug", "release"}) /\ [][NextScreen]_vars

\* Fill V0 and V1, save V0..Vx to R, clear them, read them back, I = nnn:
\*   60aa 61bb Annn Fx75 6000 6100 Annn Fx85
Flags(x, nnn) ==
    ld(0, 7) \o ld(1, 9) \o bytes(<<40960 + nnn, 61557 + 256 * x>>)
        \o ld(0, 0) \o ld(1, 0) \o bytes(<<40960 + nnn, 61573 + 256 * x>>)

FlagCounts == {0, 1, 15}
FlagBases == {0, 8, 15, 16, 564}

FlagRoms == { Flags(x, nnn) : x \in FlagCounts, nnn \in FlagBases }

NextFlags == UpdateKeys(NoKeys) \/ Elapsed({0}) \/ Tick(WarmUp, WarmUpLimit)

SpecFlags == Loaded(FlagRoms, {"debug", "release"}) /\ [][NextFlags]_vars

\* Wait for a key into Vx, then go back and wait again:
\*   Fx0A 1200
Wait(x) == bytes(<<61450 + 256 * x, 4608>>)

WaitRoms == { Wait(x) : x \in {0, 1, 15} }

\* Nothing pressed, a mapped key, an unmapped key, an unmapped key before a
\* mapped one, two mapped keys.
WaitKeys == { <<>>, <<"Key1">>, <<"Space">>, <<"Space", "V">>, <<"C", "Q">> }

UpdateWaitKeys == UpdateKeys(WaitKeys)
ElapsedWait == Elapsed({0})

NextWait == UpdateWaitKeys \/ ElapsedWait \/ Tick(WarmUp, WarmUpLimit)

SpecWait == Loaded(WaitRoms, {"debug", "release"}) /\ [][NextWait]_vars

\* run() is a loop that never blocks: the step it is at is always taken.
SpecWaitLive ==
    /\ Loaded(WaitRoms, {"debug", "release"})
    /\ [][NextWait]_vars
    /\ WF_vars(UpdateWaitKeys)
    /\ WF_vars(ElapsedWait)

\* Two jumps at each other, so that every dispatch cycle moves pc:
\*   1202 1200
GateRoms == { bytes(<<4610, 4608>>) }

\* The clock read by an iteration is 1 ms or 499 ms later than the last.
GateSteps == {1, 499}
GateLimit == 1002

NextGate == UpdateKeys(NoKeys) \/ Elapsed({0}) \/ Tick(GateSteps, GateLimit)

SpecGate == Loaded(GateRoms, {"debug", "release"}) /\ [][NextGate]_vars

\* What get_keys may report: nothing, mapped keys (slots 0, 1, 4, 11, 15),
\* unmapped keys, and mixtures in both orders.
KeySets ==
    { <<>>, <<"X">>, <<"Key1">>, <<"Space">>, <<"Space", "V">>,
      <<"C", "Q">>, <<"Q", "C">>, <<"Enter", "Space">>, <<"V", "Space", "X">> }

NextKeys == UpdateKeys(KeySets) \/ Elapsed({0}) \/ Tick(WarmUp, WarmUpLimit)

SpecKeys == Loaded(WaitRoms, {"debug", "release"}) /\ [][NextKeys]_vars

\* Draw, clear or scroll, switch to high resolution and draw 15x15:
\*   A050 60aa 61bb 62ss D015 (00E0 | 00C2) 00FF D010
PixelRoms ==
    ScreenRoms
    \cup { Screen(a, b, s, w) \o bytes(<<255, 53264>>) :
             a \in ScreenX, b \in ScreenY, s \in {1, 32}, w \in ScreenWords }
    \cup { Draws(mode, 80, 0, 1, a, 0, n) :
             mode \in DrawModes, a \in DrawX, n \in DrawRows }

NextPixels == UpdateKeys(NoKeys) \/ Elapsed({0}) \/ Tick(WarmUp, WarmUpLimit)

SpecPixels == Loaded(PixelRoms, {"debug", "release"}) /\ [][NextPixels]_vars

(***************************************************************************)
(* Vocabulary of the properties.                                           *)
(***************************************************************************)
\* This step is the run loop executing one dispatch cycle.
Dispatches == at = "clock" /\ at' = "input" /\ gate_open /\ ~emu.panic

\* The instruction the cycle executes, and its operand fields.
op == opcode(emu)
opx == nib1(op)
opy == nib2(op)
opnn == op % 256

\* This step executes an instruction whose word satisfies the mask/value.
Runs(n0) == Dispatches /\ fetchable(emu) /\ nib0(op) = n0
Runs8(n3) == Runs(8) /\ nib3(op) = n3

\* The last dispatch cycle: its instruction word, and whether it completed.
ran == IF trace = <<>> THEN -1 ELSE trace[Len(trace)].op
done == trace # <<>> /\ ~emu.panic

(***************************************************************************)
(* C1 (as stated): after 7xnn, for every x including 0xF, V[x] is          *)
(* (old V[x] + nn) mod 256 and V[0xF] is 0.                                *)
(***************************************************************************)
C1_AsStated ==
    [][Runs(7) =>
        /\ emu'.V[opx] = (emu.V[opx] + opnn) % 256
        /\ emu'.V[15] = 0]_vars

\* C1 (amended): after 7xnn V[0xF] is 0, and for x other than 0xF V[x] is
\* (old V[x] + nn) mod 256; pc has advanced by 2.
C1_AddImmediate ==
    [][Runs(7) =>
        /\ opx # 15 => emu'.V[opx] = (emu.V[opx] + opnn) % 256
        /\ emu'.V[15] = 0
        /\ emu'.pc = emu.pc + 2]_vars

\* An overflowing 7xnn on a register other than VF has run.
C1_Witness ==
    /\ done /\ nib0(ran) = 7 /\ nib1(ran) # 15
    /\ before.V[nib1(ran)] + (ran % 256) > 255
    /\ before.V[15] # 0
    /\ emu.V[nib1(ran)] = (before.V[nib1(ran)] + (ran % 256)) % 256
    /\ emu.V[15] = 0

(***************************************************************************)
(* C6 (as stated): 8xy6 stores V[y] >> 1 into V[x] and sets V[0xF] to bit  *)
(* 0 of the old V[y]; 8xyE stores (V[y] << 1) mod 256 into V[x] and sets   *)
(* V[0xF] to bit 7 of the old V[y].  Where x is 0xF the flag is the value  *)
(* the claim leaves in V[0xF].                                             *)
(***************************************************************************)
C6_AsStated ==
    [][/\ Runs8(6) =>
            /\ opx # 15 => emu'.V[opx] = emu.V[opy] \div 2
            /\ emu'.V[15] = Bit(emu.V[opy], 0)
       /\ Runs8(14) =>
            /\ opx # 15 => emu'.V[opx] = (emu.V[opy] * 2) % 256
            /\ emu'.V[15] = Bit(emu.V[opy], 7)]_vars

(***************************************************************************)
(* C7: after 8xy4 V[0xF] is 1 iff old V[x] + old V[y] >= 256, else 0, and  *)
(* for x other than 0xF V[x] is (old V[x] + old V[y]) mod 256.             *)
(***************************************************************************)
C7_AddCarry ==
    [][Runs8(4) =>
        /\ emu'.V[15] = (IF emu.V[opx] + emu.V[opy] >= 256 THEN 1 ELSE 0)
        /\ opx # 15 => emu'.V[opx] = (emu.V[opx] + emu.V[opy]) % 256]_vars

\* An 8xy4 that overflowed has run, and one that did not.
C7_Witness ==
    /\ done /\ nib0(ran) = 8 /\ nib3(ran) = 4
    /\ before.V[nib1(ran)] + before.V[nib2(ran)] >= 256
    /\ nib1(ran) # 15 /\ nib1(ran) # nib2(ran)
    /\ emu.V[15] = 1
    /\ emu.V[nib1(ran)] = before.V[nib1(ran)] + before.V[nib2(ran)] - 256

(***************************************************************************)
(* C8: after 8xy5 V[0xF] is 0 if old V[x] < old V[y] and 1 otherwise, and  *)
(* V[x] = (old V[x] - old V[y]) mod 256 for x other than 0xF; after 8xy7   *)
(* V[0xF] is 0 if old V[y] < old V[x] and 1 otherwise, and V[x] =          *)
(* (old V[y] - old V[x]) mod 256 for x other than 0xF.                     *)
(***************************************************************************)
C8_SubBorrow ==
    [][/\ Runs8(5) =>
            /\ emu'.V[15] = (IF emu.V[opx] < emu.V[opy] THEN 0 ELSE 1)
            /\ opx # 15 => emu'.V[opx] = (emu.V[opx] - emu.V[opy]) % 256
       /\ Runs8(7) =>
            /\ emu'.V[15] = (IF emu.V[opy] < emu.V[opx] THEN 0 ELSE 1)
            /\ opx # 15 => emu'.V[opx] = (emu.V[opy] - emu.V[opx]) % 256]_vars

\* An 8xy5 that borrowed has run.
C8_Witness ==
    /\ done /\ nib0(ran) = 8 /\ nib3(ran) = 5
    /\ nib1(ran) # 15
    /\ before.V[nib1(ran)] < before.V[nib2(ran)]
    /\ emu.V[15] = 0
    /\ emu.V[nib1(ran)] = before.V[nib1(ran)] - before.V[nib2(ran)] + 256

\* The instruction moves pc on by k and changes nothing else.
OnlyPc(k) == emu' = [emu EXCEPT !.pc = emu.pc + k]

\* Key slot k is held down (the keypad has the slots 0..15).
pressed(m, k) == k \in 0..15 /\ m.key[k] # 0

C10_AsStated ==
    [][/\ Runs(3) => OnlyPc(IF emu.V[opx] = opnn THEN 4 ELSE 2)
       /\ Runs(4) => OnlyPc(IF emu.V[opx] # opnn THEN 4 ELSE 2)
       /\ Runs(5) /\ nib3(op) = 0 =>
            OnlyPc(IF emu.V[opx] = emu.V[opy] THEN 4 ELSE 2)
       /\ Runs(14) /\ opnn = 158 =>
            OnlyPc(IF pressed(emu, emu.V[opx]) THEN 4 ELSE 2)
       /\ Runs(14) /\ opnn = 161 =>
            OnlyPc(IF ~pressed(emu, emu.V[opx]) THEN 4 ELSE 2)]_vars

(***************************************************************************)
(* C4: for every address nnn and every state with sp < 16, executing 2nnn  *)
(* and then immediately 00EE leaves pc equal to the address of the 2nnn    *)
(* instruction plus 2 and sp equal to its value before the call.           *)
(* (In a step that executes 00EE right after a 2nnn, `before` is the       *)
(* machine the 2nnn started from.)                                         *)
(***************************************************************************)
C4_CallReturn ==
    [][(/\ Dispatches /\ fetchable(emu) /\ op = 238
        /\ nib0(ran) = 2 /\ before.sp < 16)
       => /\ ~emu'.panic
          /\ emu'.pc = before.pc + 2
          /\ emu'.sp = before.sp
          /\ emu.pc = ran % 4096
          /\ trace[Len(trace)].pc = before.pc]_vars

\* A 2nnn executed with sp = 15, then the 00EE at nnn: back behind the call.
C4_Witness ==
    /\ Len(trace) = 2 /\ nib0(trace[1].op) = 2 /\ trace[2].op = 238
    /\ trace[2].pc = trace[1].op % 4096
    /\ ~emu.panic
    /\ emu.sp = 15
    /\ emu.pc = trace[1].pc + 2

(***************************************************************************)
(* C9.  The words the claim calls explicit control transfers, the words    *)
(* that are skip instructions with the condition each one tests, and the   *)
(* words that leave pc alone.                                              *)
(***************************************************************************)
Transfer(w) == nib0(w) \in {1, 2, 11} \/ w \in {238, 253}

IsSkip(w) ==
    \/ nib0(w) \in {3, 4}
    \/ nib0(w) \in {5, 9} /\ nib3(w) = 0
    \/ nib0(w) = 14 /\ w % 256 \in {158, 161}

Taken(m, w) ==
    LET vx == m.V[nib1(w)]
        vy == m.V[nib2(w)]
    IN  \/ nib0(w) = 3 /\ vx = w % 256
        \/ nib0(w) = 4 /\ vx # w % 256
        \/ nib0(w) = 5 /\ nib3(w) = 0 /\ vx = vy
        \/ nib0(w) = 9 /\ nib3(w) = 0 /\ vx # vy
        \/ nib0(w) = 14 /\ w % 256 = 158 /\ vx <= 15 /\ m.key[vx] # 0
        \/ nib0(w) = 14 /\ w % 256 = 161 /\ vx <= 15 /\ m.key[vx] = 0

\* The words some arm other than (0, _, _, _) takes.
Matched(w) ==
    \/ w \in 192..207 \/ w \in {224, 238, 251, 252, 253, 254, 255}
    \/ nib0(w) \in {1, 2, 3, 4, 6, 7, 10, 11, 12, 13}
    \/ nib0(w) \in {5, 9} /\ nib3(w) = 0
    \/ nib0(w) = 8 /\ nib3(w) \in {0, 1, 2, 3, 4, 5, 6, 7, 14}
    \/ nib0(w) = 14 /\ w % 256 \in {158, 161}
    \/ nib0(w) = 15 /\ w % 256 \in {7, 10, 21, 24, 30, 41, 48, 51, 85, 101, 117, 133}

\* 0nnn native calls, words no arm takes, and Fx0A with no key latched.
Stalls(m, w) ==
    \/ ~Matched(w)
    \/ nib0(w) = 15 /\ w % 256 = 10 /\ m.last_key = None

Scenarios ==
    /\ (done /\ trace = <<[pc |-> 512, op |-> 24581], [pc |-> 514, op |-> 28675]>>)
           => emu.V[0] = 8 /\ emu.pc = 516
    /\ (done /\ trace = <<[pc |-> 512, op |-> 41524]>>)
           => emu.I = 564 /\ emu.pc = 514

C2_AsStated ==
    [][(/\ Dispatches /\ fetchable(emu)
        /\ nib0(op) = 15 /\ opnn = 7
        /\ emu.delay_start # None /\ now >= emu.delay_start[1])
       => LET a     == emu.delay_timer
              ticks == ((now - emu.delay_start[1]) * 60) \div 1000
          IN  /\ emu'.V[opx] = (IF ticks < a THEN a - ticks ELSE 0)
              /\ (a = 10 /\ ran = 61461 /\ now = emu.delay_start[1])
                     => emu'.V[opx] \in {9, 10}]_vars

(***************************************************************************)
(* C3.  The sprite a Dxyn word draws in machine m: its set bits as         *)
(* <<row, col>>, and the framebuffer cell of a bit for the coordinates     *)
(* (vx, vy).                                                               *)
(***************************************************************************)
sprite_width(m, w) == IF m.hgr /\ nib3(w) = 0 THEN 15 ELSE 8
sprite_height(m, w) == IF m.hgr /\ nib3(w) = 0 THEN 15 ELSE nib3(w)

sprite_bits(m, w) ==
    { rc \in (0..(sprite_height(m, w) - 1)) \X (0..(sprite_width(m, w) - 1)) :
        /\ sprite_row(m, rc[1], sprite_width(m, w)) >= 0
        /\ Bit(sprite_row(m, rc[1], sprite_width(m, w)),
               (IF sprite_width(m, w) = 8 THEN 7 ELSE 15) - rc[2]) = 1 }

cell(vx, vy, rc) == vx + rc[2] + (vy + rc[1]) * 64

\* A step that executes a Dxyn word right after a cycle that executed the
\* same word and completed: `before` is the machine the first draw began in.
SecondDraw ==
    /\ Dispatches /\ fetchable(emu)
    /\ nib0(op) = 13 /\ ran = op
    /\ ~emu'.panic

\* C3 as stated: the same Dxyn twice in a row, for all x, y in 0..15, all
\* pixels in range, leaves every framebuffer pixel equal to its value before
\* the first draw, and after the second draw V[0xF] is 1 exactly when the
\* sprite has at least one set bit.
C3_AsStated ==
    [][SecondDraw
       => /\ emu'.gfx = before.gfx
          /\ emu'.V[15] = 1 <=> sprite_bits(emu, op) # {}]_vars

\* C3, amended: the same Dxyn twice in a row, for x and y in 0..14, all
\* pixels in range, leaves every framebuffer pixel equal to its value before
\* the first draw, and after the second draw V[0xF] is 1 exactly when some
\* set bit of the sprite lands on a pixel that was off before the first
\* draw (else V[0xF] is 0).
C3_DrawTwice ==
    [][(SecondDraw /\ opx <= 14 /\ opy <= 14)
       => /\ emu'.gfx = before.gfx
          /\ emu'.V[15] \in {0, 1}
          /\ emu'.V[15] = 1 <=>
                 \E rc \in sprite_bits(emu, op) :
                     before.gfx[cell(before.V[opx], before.V[opy], rc)] = 0]_vars

\* The second of two equal draws through V0 and V1 has run, met the pixels
\* the first one lit, and put them out again.
C3_Witness ==
    /\ done /\ Len(trace) = 2
    /\ nib0(ran) = 13 /\ trace[1].op = ran
    /\ nib1(ran) <= 14 /\ nib2(ran) <= 14
    /\ emu.V[15] = 1
    /\ emu.gfx # before.gfx

(***************************************************************************)
(* C11.  What Fx55 and Fx65 are said to do to machine m, x the count.      *)
(***************************************************************************)
Stored(m, x) ==
    [m EXCEPT !.memory = [a \in 0..4095 |->
                             IF a >= m.I /\ a <= m.I + x THEN m.V[a - m.I]
                             ELSE m.memory[a]],
              !.I = m.I + x + 1,
              !.pc = m.pc + 2]

Fetched(m, x) ==
    [m EXCEPT !.V = [c \in 0..15 |-> IF c <= x THEN m.memory[m.I + c] ELSE m.V[c]],
              !.I = m.I + x + 1,
              !.pc = m.pc + 2]

\* Fx55, the registers overwritten, I set back to the base, then Fx65.
RoundTrip(m, x) ==
    LET stored  == store_v0_vx(m, x)
        cleared == [stored EXCEPT !.V = [c \in 0..15 |-> 0], !.I = m.I]
    IN  read_v0_vx(cleared, x)

\* C11 as stated: Fx55 copies V[0..=x] into memory[I..=I+x], Fx65 copies
\* memory[I..=I+x] into V[0..=x]; each leaves V[x+1..15] and all other memory
\* unchanged and afterwards I is its old value plus x+1; Fx55 followed by
\* Fx65 with I set back to the same base restores V[0..=x].
C11_AsStated ==
    [][/\ (Runs(15) /\ opnn = 85)
          => /\ emu' = Stored(emu, opx)
             /\ \A c \in 0..opx : RoundTrip(emu, opx).V[c] = emu.V[c]
       /\ (Runs(15) /\ opnn = 101)
          => /\ ~emu'.panic /\ emu'.I = emu.I + opx + 1
             /\ emu.I + opx <= 4095 => emu' = Fetched(emu, opx)]_vars

\* C11, amended: whenever I + x <= 4095, Fx55 copies V[0..=x] into
\* memory[I..=I+x] and Fx65 copies memory[I..=I+x] into V[0..=x]; each
\* leaves V[x+1..15], all memory outside that range and everything else but
\* I and pc unchanged, afterwards I is its old value plus x+1 and pc has
\* advanced by 2; Fx55 followed by Fx65 with I set back to the same base
\* restores V[0..=x] to the stored values.  When I + x > 4095 the
\* instruction panics (index out of bounds).
C11_BlockCopy ==
    [][/\ (Runs(15) /\ opnn = 85 /\ emu.I + opx <= 4095)
          => /\ emu' = Stored(emu, opx)
             /\ \A c \in 0..opx : RoundTrip(emu, opx).V[c] = emu.V[c]
       /\ (Runs(15) /\ opnn = 101 /\ emu.I + opx <= 4095)
          => emu' = Fetched(emu, opx)
       /\ (Runs(15) /\ opnn \in {85, 101} /\ emu.I + opx > 4095)
          => emu'.panic]_vars

\* The program has stored V0..V2, cleared them and loaded them again: they
\* hold the three values the program began with (the operand bytes of its
\* first three instructions).
C11_Witness ==
    /\ done /\ ran = 61541 + 256 * 2
    /\ emu.I = 768 + 3
    /\ emu.V[0] = 255 /\ emu.V[1] = 0 /\ emu.V[2] = 128
    /\ \A c \in 0..2 : emu.V[c] = emu.memory[513 + 2 * c]
                       /\ emu.memory[768 + c] = emu.V[c]

(***************************************************************************)
(* C12 as stated: in every reachable state 0 <= sp < 16, and every stack   *)
(* access by 2nnn (stack[sp]) and by 00EE (stack[sp-1]) uses an index in   *)
(* 0..15.                                                                  *)
(***************************************************************************)
C12_AsStated ==
    [][/\ emu'.sp \in 0..15
       /\ Runs(2) => emu.sp \in 0..15
       /\ (Runs(0) /\ op = 238) => emu.sp - 1 \in 0..15]_vars

(***************************************************************************)
(* C13 as stated: every instruction fetch reads memory[pc] and             *)
(* memory[pc+1] with both addresses below 4096; after 00FD has set pc to   *)
(* its sentinel the run loop performs no further fetch.                    *)
(***************************************************************************)
C13_AsStated ==
    [][Dispatches => emu.pc + 1 < 4096 /\ ran # 253]_vars

(***************************************************************************)
(* C14 as stated: whenever a dispatch cycle changes at least one           *)
(* framebuffer pixel, the run loop hands the updated framebuffer to the    *)
(* display in that same iteration, and draw_flag is false at the end of    *)
(* every loop iteration.                                                   *)
(***************************************************************************)
C14_AsStated ==
    [][/\ (Dispatches /\ emu'.gfx # emu.gfx)
          => shown'.fresh /\ shown'.frame = emu'.gfx
       /\ (at = "clock" /\ at' = "input") => ~emu'.draw_flag]_vars

(***************************************************************************)
(* C15 as stated: Fx07 on a machine whose delay timer has never been armed *)
(* sets V[x] to 0.                                                         *)
(***************************************************************************)
C15_AsStated ==
    [][(Runs(15) /\ opnn = 7 /\ emu.delay_start = None) => emu'.V[opx] = 0]_vars

(***************************************************************************)
(* C16 as stated: after 00Cx with s = V[x], for every row r with           *)
(* s <= r < 32 and every column c the pixel at (r, c) equals the           *)
(* pre-instruction pixel at (r - s, c), every pixel in rows 0..s-1 is      *)
(* unchanged, and pc has advanced by 2.                                    *)
(***************************************************************************)
C16_AsStated ==
    [][(Runs(0) /\ op \in 192..207)
       => /\ ~emu'.panic
          /\ emu'.pc = emu.pc + 2
          /\ \A r \in 0..31, c \in 0..63 :
                emu'.gfx[r * 64 + c] =
                    (IF r >= emu.V[nib3(op)]
                     THEN emu.gfx[(r - emu.V[nib3(op)]) * 64 + c]
                     ELSE emu.gfx[r * 64 + c])]_vars

(***************************************************************************)
(* C17 as stated: for every x and every value of I a program can hold,     *)
(* Fx75 followed by Fx85 restores V[0..=x] with every R access inside      *)
(* R[0..16], and no instruction other than Fx75 changes R.                 *)
(***************************************************************************)
C17_AsStated ==
    [][/\ (Runs(15) /\ opnn \in {117, 133})
          => /\ \A c \in 0..opx : emu.I + c \in 0..15
             /\ ~emu'.panic
       /\ (Runs(15) /\ opnn = 133 /\ ~emu'.panic)
          => \A c \in 0..opx : emu'.V[c] = emu.R[emu.I + c]
       /\ (Dispatches /\ ~(Runs(15) /\ opnn = 117)) => emu'.R = emu.R]_vars

(***************************************************************************)
(* C19: when the fetched word matches no dispatch pattern, or is a 0nnn    *)
(* native call, emulate_cycle leaves the whole machine state unchanged     *)
(* (pc, V, R, I, memory, stack, sp, gfx, hgr, timers, draw_flag), so every *)
(* later cycle re-fetches the same word and pc never changes again: no     *)
(* step taken from a state whose current word is such a word changes pc or *)
(* memory.                                                                 *)
(***************************************************************************)
C19_Stalls ==
    [][(~emu.panic /\ fetchable(emu) /\ ~Matched(opcode(emu)))
       => /\ \A random \in {0, 255} : emulate_cycle(emu, random) = emu
          /\ Dispatches => emu' = emu
          /\ emu'.pc = emu.pc
          /\ emu'.memory = emu.memory
          /\ opcode(emu') = opcode(emu)]_vars

\* Two cycles in a row have fetched the unmatched word 5011 at the same pc,
\* and pc is still there.
C19_Witness ==
    /\ done /\ Len(trace) = 2
    /\ trace[1] = trace[2]
    /\ ran = 20497 /\ ~Matched(ran)
    /\ emu.pc = trace[2].pc

(***************************************************************************)
(* C18: while pc points at an Fx0A instruction, every cycle on which       *)
(* last_key is none leaves pc and all registers unchanged, and the first   *)
(* cycle on which last_key is Some(k) sets V[x] = k and advances pc by 2;  *)
(* hence if some input refresh after the timing gate opens observes a      *)
(* mapped key pressed, the machine eventually leaves the Fx0A instruction, *)
(* and otherwise it stays there forever.                                   *)
(***************************************************************************)
Waiting == ~emu.panic /\ fetchable(emu) /\ nib0(op) = 15 /\ opnn = 10

C18_WaitKey ==
    /\ [][(Dispatches /\ Waiting)
          => IF emu.last_key = None
             THEN emu' = emu
             ELSE emu' = [emu EXCEPT !.V = [@ EXCEPT ![opx] = emu.last_key[1]],
                                     !.pc = emu.pc + 2]]_vars
    /\ [][(Waiting /\ ~Waiting') => (Dispatches /\ emu.last_key # None)]_vars
    /\ (Waiting /\ at = "clock" /\ gate_open /\ emu.last_key # None) ~> ~Waiting

\* A refresh saw an unmapped key and then V; the cycle after it has left
\* the F10A with V1 = 15, the slot of V.
C18_Witness ==
    /\ done /\ ran = 61450 + 256
    /\ emu.pc = 514
    /\ emu.last_key = Some(15)
    /\ emu.V[1] = 15

(***************************************************************************)
(* C20: the run loop executes no dispatch cycle in any iteration before    *)
(* 1000 ms have elapsed since the loop started, and once one iteration has *)
(* passed the timing gate every later iteration (the clock never goes      *)
(* back) executes exactly one dispatch cycle, preceded in the same         *)
(* iteration by exactly one input refresh.                                 *)
(***************************************************************************)
C20_Gate ==
    [][/\ (at = "clock" /\ at' = "input" /\ now < 1000)
          => emu' = emu /\ trace' = trace
       /\ (at = "clock" /\ at' = "input" /\ (now >= 1000 \/ trace # <<>>))
          => /\ now >= 1000
             /\ emu' = emulate_cycle(emu, 0)
             /\ emu'.pc # emu.pc
             /\ trace' = record(trace, emu)
       /\ (at = "input" /\ at' # at)
          => /\ at' = "clock"
             /\ \E keys \in NoKeys : emu' = update_keys(emu, keys)
             /\ trace' = trace
       /\ (at = "clock" /\ at' # at) => at' = "input"
       /\ (at' = at) => (emu' = emu /\ now' >= now)]_vars

\* The loop has waited 999 ms without a cycle, and run two cycles since.
C20_Witness ==
    /\ done /\ Len(trace) = 2 /\ at = "input"
    /\ now = 1000
    /\ trace = <<[pc |-> 512, op |-> 4610], [pc |-> 514, op |-> 4608]>>
    /\ emu.pc = 512

(***************************************************************************)
(* C21: after every input refresh, whatever key and last_key held before:  *)
(* key[i] is nonzero exactly for the slots i whose mapped key is pressed,  *)
(* last_key is none if and only if all 16 slots are zero, and when         *)
(* last_key is Some(k) then key[k] is nonzero and k is the slot of the     *)
(* first mapped key in the order the pressed keys are reported.            *)
(***************************************************************************)
Mapped(k) == \E i \in 1..16 : keymap[i] = k

Refreshed(m, keys) ==
    /\ \A i \in 0..15 :
          m.key[i] # 0 <=> \E j \in 1..Len(keys) : keys[j] = keymap[i + 1]
    /\ m.last_key = None <=> \A i \in 0..15 : m.key[i] = 0
    /\ m.last_key # None =>
          /\ m.last_key[1] \in 0..15
          /\ m.key[m.last_key[1]] # 0
          /\ \E j \in 1..Len(keys) :
                /\ keys[j] = keymap[m.last_key[1] + 1]
                /\ \A h \in 1..(j - 1) : ~Mapped(keys[h])

C21_Refresh ==
    [][(at = "input" /\ at' = "clock")
       => \E keys \in KeySets :
             /\ emu' = update_keys(emu, keys)
             /\ Refreshed(emu', keys)
             /\ \A old \in KeySets : update_keys(update_keys(emu, old), keys) = emu'
             /\ emu' = [emu EXCEPT !.key = emu'.key, !.last_key = emu'.last_key]]_vars

\* V, an unmapped key and X were reported in that order: slots 15 and 0 are
\* down and the latch holds 15.
C21_Witness ==
    /\ at = "clock"
    /\ emu.last_key = Some(15)
    /\ emu.key[15] = 255 /\ emu.key[0] = 255
    /\ \A i \in 1..14 : emu.key[i] = 0

(***************************************************************************)
(* C22: in every state reachable from a fresh machine by any sequence of   *)
(* instructions (draws in either resolution mode, 00E0, 00Cx scroll, mode  *)
(* toggles), every framebuffer cell holds 0 or 1; so does every cell of a  *)
(* frame handed to the renderer.                                           *)
(***************************************************************************)
C22_Cells ==
    /\ \A g \in 0..2047 : emu.gfx[g] \in {0, 1}
    /\ \A g \in 0..2047 : shown.frame[g] \in {0, 1}

\* After a scroll or clear, the switch to high resolution and a 15x15 draw:
\* pixels are lit and shown.
C22_Witness ==
    /\ done /\ Len(trace) = 2
    /\ trace[1].op = 255 /\ ran = 53264
    /\ emu.hgr
    /\ shown.fresh /\ shown.frame = emu.gfx
    /\ \E g \in 0..2047 : emu.gfx[g] = 1

====
